---- MODULE Spec2Model ----
(***************************************************************************)
(* A model of two routines of the automation toolkit:                      *)
(*   - Files.arrange_files (src/src/files.py), which sorts the entries of  *)
(*     a folder into sub-folders by file extension, and                    *)
(*   - convert_to_array (src/src/automation/utils.py), a generator that    *)
(*     turns each positional argument into a numpy array.                  *)
(*                                                                         *)
(* A file name is a sequence of one-character strings, a path is a         *)
(* sequence of names relative to self.folder_directory, and the folder is  *)
(* a set of nodes [path, kind, id]; id is the path the node had when the   *)
(* model starts (<<>> for a folder arrange_files creates), so that an      *)
(* entry can be followed through renames and seen to be overwritten.       *)
(***************************************************************************)
EXTENDS Integers, Sequences, FiniteSets, TLC

\* arrange_files: the folder, the argument, the position in the method,
\* which call it is, and the method's locals (lst_file_ext0 keeps the list of
\* line 44 as it was before the loop of line 46, fs0 the folder at the call).
VARIABLES fs, misc_folder_name, pc, run, lst_files, lst_file_ext, i,
          lst_misc_files, fs0, lst_file_ext0

\* convert_to_array: the arguments, the position of the generator in them,
\* the arrays yielded so far, the positions warned about, and whether the
\* generator is suspended, exhausted or ended by an exception.
VARIABLES args, pos, yielded, warned, gen

filevars == <<fs, misc_folder_name, pc, run, lst_files, lst_file_ext, i,
              lst_misc_files, fs0, lst_file_ext0>>
genvars == <<args, pos, yielded, warned, gen>>
vars == <<filevars, genvars>>

(* ------------------------------ bounds -------------------------------- *)

\* The largest number of entries the folder holds before the first call.
MaxEntries == 3

\* The largest number of arguments given to convert_to_array.
MaxArgs == 2

(* ------------------------------ names --------------------------------- *)

\* The letters the names of the model are written with (str.isalpha holds
\* of these and of no digit, dot or underscore).
Letters ==
  {"a","b","c","d","e","f","g","h","i","j","k","l","m",
   "n","o","p","q","r","s","t","u","v","w","x","y","z"}

a_txt  == <<"a", ".", "t", "x", "t">>
b_txt  == <<"b", ".", "t", "x", "t">>
c_csv  == <<"c", ".", "c", "s", "v">>
readme == <<"r", "e", "a", "d", "m", "e">>
x_123  == <<"x", ".", "1", "2", "3">>
y_456  == <<"y", ".", "4", "5", "6">>
dot_txt == <<".", "t", "x", "t">>
sub    == <<"s", "u", "b">>
others == <<"o", "t", "h", "e", "r", "s">>
new_others == <<"n", "e", "w", "_", "o", "t", "h", "e", "r", "s">>

\* The names an entry of the folder may have before the first call.
EntryNames == {a_txt, b_txt, c_csv, readme, x_123, y_456, dot_txt, sub, others}

\* The values passed as misc_folder_name: the default of line 24 and the
\* one of the call on line 127.
MiscNames == {others, new_others}

(* --------------------------- the file system --------------------------- *)

File(n) == {[path |-> <<n>>, kind |-> "file", id |-> <<n>>]}

Dir(n, kids) ==
  {[path |-> <<n>>, kind |-> "dir", id |-> <<n>>]}
    \cup {[path |-> <<n, k>>, kind |-> "file", id |-> <<n, k>>] : k \in kids}

\* What an entry of a given name may be before the first call.
EntryOptions(n) ==
  IF n = dot_txt THEN {File(n), Dir(n, {}), Dir(n, {a_txt})}
  ELSE IF n = others THEN {File(n), Dir(n, {}), Dir(n, {readme})}
  ELSE IF n = sub THEN {Dir(n, {}), Dir(n, {readme})}
  ELSE {File(n)}

RECURSIVE Trees(_)
Trees(S) ==
  IF S = {} THEN {{}}
  ELSE LET n == CHOOSE x \in S : TRUE
       IN  {o \cup t : o \in EntryOptions(n), t \in Trees(S \ {n})}

InitialFolders ==
  UNION {Trees(S) : S \in {T \in SUBSET EntryNames : Cardinality(T) <= MaxEntries}}

Exists(f, p) == \E n \in f : n.path = p
IsDir(f, p)  == \E n \in f : n.path = p /\ n.kind = "dir"
IsFile(f, p) == \E n \in f : n.path = p /\ n.kind = "file"

\* os.listdir(self.folder_directory): the names of the immediate entries.
TopNames(f) == {n.path[1] : n \in {m \in f : Len(m.path) = 1}}

\* The orders os.listdir may return the names in: any.
Listings(S) ==
  {p \in [1..Cardinality(S) -> S] : \A a, b \in 1..Cardinality(S) : a # b => p[a] # p[b]}

IsPrefix(p, q) == Len(p) <= Len(q) /\ SubSeq(q, 1, Len(p)) = p

\* os.rename(src, dst) of an entry and all below it.
Rename(f, src, dst) ==
  {IF IsPrefix(src, n.path)
     THEN [n EXCEPT !.path = dst \o SubSeq(n.path, Len(src) + 1, Len(n.path))]
     ELSE n : n \in f}

Under(f, p) == {n \in f : IsPrefix(p, n.path)}

\* os.makedirs(os.path.join(self.folder_directory, name)): FileExistsError
\* when an entry of that name exists, a file or a folder.
MakedirsFails(f, name) == Exists(f, <<name>>)
Makedirs(f, name) == f \cup {[path |-> <<name>>, kind |-> "dir", id |-> <<>>]}

\* shutil.move(join(dir, src), join(dir, dst)) for two names of the folder.
\*   dst is a folder: src itself (same file) is renamed onto itself, a
\*     no-op; else the target is dst/src and an entry there is an Error;
\*   dst is no folder: the target is dst itself; os.rename replaces a file
\*     by a file, and a folder over a file fails (copytree's makedirs).
\*   A missing source fails.
MoveFails(f, src, dst) ==
  \/ ~Exists(f, <<src>>)
  \/ IsDir(f, <<dst>>) /\ src # dst /\ Exists(f, <<dst, src>>)
  \/ IsFile(f, <<dst>>) /\ src # dst /\ IsDir(f, <<src>>)

Move(f, src, dst) ==
  IF src = dst THEN f
  ELSE IF IsDir(f, <<dst>>) THEN Rename(f, <<src>>, <<dst, src>>)
  ELSE Rename(f \ Under(f, <<dst>>), <<src>>, <<dst>>)

(* ------------------------- extension tokens ---------------------------- *)

\* x[-4:]
Last4(x) == SubSeq(x, IF Len(x) > 4 THEN Len(x) - 3 ELSE 1, Len(x))

\* re.search("^[.]", y)
StartsWithDot(y) == Len(y) >= 1 /\ y[1] = "."

\* str.isalpha(): at least one character, and all of them letters.
IsAlpha(s) == Len(s) >= 1 /\ \A k \in 1..Len(s) : s[k] \in Letters

\* ext[1:].isalpha() is True
IsExtension(ext) == IsAlpha(SubSeq(ext, 2, Len(ext)))

\* [y for y in [x[-4:] for x in lst_files] if re.search("^[.]", y)]
RECURSIVE DottedEnds(_)
DottedEnds(lst) ==
  IF lst = <<>> THEN <<>>
  ELSE (IF StartsWithDot(Last4(Head(lst))) THEN <<Last4(Head(lst))>> ELSE <<>>)
         \o DottedEnds(Tail(lst))

\* list.remove(e): drops the first element equal to e.
RemoveFirst(L, e) ==
  LET k == CHOOSE m \in 1..Len(L) : L[m] = e /\ \A q \in 1..(m - 1) : L[q] # e
  IN  SubSeq(L, 1, k - 1) \o SubSeq(L, k + 1, Len(L))

\* One pass of the body of the loop of lines 46-51 at position k of the
\* list it iterates: the list it leaves.
FilterBody(L, k) ==
  IF IsExtension(L[k]) THEN L ELSE RemoveFirst(L, L[k])

\* for ext in lst_file_ext: ... lst_file_ext.remove(ext): the iterator keeps
\* its position in the list the body shortens.
RECURSIVE FilterLoop(_, _)
FilterLoop(L, k) ==
  IF k > Len(L) THEN L ELSE FilterLoop(FilterBody(L, k), k + 1)

\* list(set(lst_file_ext)), as the set of its elements.
Range(L) == {L[k] : k \in 1..Len(L)}

\* The token without its leading dot.
FolderStripped(ext) == SubSeq(ext, 2, Len(ext))

\* The name of the folder line 58 makes for a token: the token itself.
FolderOf(ext) == ext

\* The folder line 72 moves the entries left over to: the literal "others",
\* whatever misc_folder_name is.
MiscTarget(name) == others

(* ------------------------------ actions -------------------------------- *)

GenIdle ==
  /\ args = <<>>
  /\ pos = 1
  /\ yielded = <<>>
  /\ warned = {}
  /\ gen = "suspended"

Init ==
  /\ GenIdle
  /\ fs \in InitialFolders
  /\ misc_folder_name \in MiscNames
  /\ pc = "makemisc"
  /\ run = 1
  /\ lst_files = <<>>
  /\ lst_file_ext = {}
  /\ lst_file_ext0 = <<>>
  /\ i = 1
  /\ lst_misc_files = {}
  /\ fs0 = fs

\* Lines 36-40: the catch-all folder is made, or FileExistsError is raised
\* (pc "exists_error": the exception leaves arrange_files).
MakeMisc ==
  /\ pc = "makemisc"
  /\ IF MakedirsFails(fs, misc_folder_name)
       THEN pc' = "exists_error" /\ fs' = fs
       ELSE pc' = "listext" /\ fs' = Makedirs(fs, misc_folder_name)
  /\ UNCHANGED <<misc_folder_name, run, lst_files, lst_file_ext, i,
                 lst_misc_files, fs0, lst_file_ext0, genvars>>

\* Lines 42-54: the listing, the suffixes, the filter and the set.
ListExtensions ==
  /\ pc = "listext"
  /\ \E l \in Listings(TopNames(fs)) :
       /\ lst_files' = l
       /\ lst_file_ext0' = DottedEnds(l)
       /\ lst_file_ext' = Range(FilterLoop(DottedEnds(l), 1))
  /\ pc' = "makeext"
  /\ UNCHANGED <<fs, misc_folder_name, run, i, lst_misc_files, fs0, genvars>>

\* Lines 56-60: a folder per token; one that exists is printed and kept.
RECURSIVE MakeAll(_, _)
MakeAll(f, S) ==
  IF S = {} THEN f
  ELSE LET e == CHOOSE x \in S : TRUE
       IN  MakeAll(IF MakedirsFails(f, FolderOf(e)) THEN f ELSE Makedirs(f, FolderOf(e)),
                   S \ {e})

MakeExtFolders ==
  /\ pc = "makeext"
  /\ fs' = MakeAll(fs, lst_file_ext)
  /\ pc' = "moveext"
  /\ i' = 1
  /\ UNCHANGED <<misc_folder_name, run, lst_files, lst_file_ext,
                 lst_misc_files, fs0, lst_file_ext0, genvars>>

\* The token a file is moved for, if any (lines 63-64): the set holds each
\* token once, so at most one matches.
Matches(file) == {e \in lst_file_ext : Last4(file) = e}

\* A loop that goes on to its next entry.
AfterFailedMoveSkip(at) == at

\* What a failed shutil.move leads to: no try encloses lines 65 and 72, so
\* the exception leaves arrange_files (pc "move_error").
AfterFailedMove(at) == "move_error"

\* Lines 62-65, one pass of the outer loop.
MoveExtFile ==
  /\ pc = "moveext"
  /\ i <= Len(lst_files)
  /\ LET file == lst_files[i]
     IN  IF Matches(file) = {}
           THEN fs' = fs /\ pc' = pc /\ i' = i + 1
           ELSE LET e == CHOOSE x \in Matches(file) : TRUE
                IN  IF MoveFails(fs, file, e)
                      THEN /\ fs' = fs
                           /\ pc' = AfterFailedMove(pc)
                           /\ i' = i + 1
                      ELSE /\ fs' = Move(fs, file, e)
                           /\ pc' = pc
                           /\ i' = i + 1
  /\ UNCHANGED <<misc_folder_name, run, lst_files, lst_file_ext,
                 lst_misc_files, fs0, lst_file_ext0, genvars>>

\* A test that excludes nothing.
NotInNothing(lst_all_files, S) == lst_all_files

\* [x for x in lst_all_files if x not in lst_file_ext], as the set of its
\* elements: os.listdir returns them in any order, and the loop of line 71
\* takes them in that order, so each pass takes any element not yet taken.
NotIn(lst_all_files, S) == {x \in lst_all_files : x \notin S}

\* Lines 67-69, reached when the loop of line 62 ends.
ListMisc ==
  /\ pc = "moveext"
  /\ i > Len(lst_files)
  /\ lst_misc_files' = NotIn(TopNames(fs), lst_file_ext)
  /\ pc' = "movemisc"
  /\ UNCHANGED <<fs, misc_folder_name, run, lst_files, lst_file_ext, i, fs0,
                 lst_file_ext0, genvars>>

\* Lines 71-72, one pass of the loop.
MoveMiscFile ==
  /\ pc = "movemisc"
  /\ \E misc_file \in lst_misc_files :
       LET dst == MiscTarget(misc_folder_name)
       IN  /\ lst_misc_files' = lst_misc_files \ {misc_file}
           /\ IF MoveFails(fs, misc_file, dst)
                THEN fs' = fs /\ pc' = AfterFailedMove(pc)
                ELSE fs' = Move(fs, misc_file, dst) /\ pc' = pc
  /\ UNCHANGED <<misc_folder_name, run, lst_files, lst_file_ext, i, fs0,
                 lst_file_ext0, genvars>>

\* The loop of line 71 ends and arrange_files returns.
Return ==
  /\ pc = "movemisc"
  /\ lst_misc_files = {}
  /\ pc' = "done"
  /\ UNCHANGED <<fs, misc_folder_name, run, lst_files, lst_file_ext, i,
                 lst_misc_files, fs0, lst_file_ext0, genvars>>

\* arrange_files is called again on the same folder with the same name.
CallAgain ==
  /\ pc = "done"
  /\ run = 1
  /\ run' = 2
  /\ pc' = "makemisc"
  /\ fs0' = fs
  /\ lst_files' = <<>>
  /\ lst_file_ext' = {}
  /\ lst_file_ext0' = <<>>
  /\ lst_misc_files' = {}
  /\ i' = 1
  /\ UNCHANGED <<fs, misc_folder_name, genvars>>

Next ==
  \/ MakeMisc
  \/ ListExtensions
  \/ MakeExtFolders
  \/ MoveExtFile
  \/ ListMisc
  \/ MoveMiscFile
  \/ Return
  \/ CallAgain

Spec == Init /\ [][Next]_vars

(* -------------------------- convert_to_array --------------------------- *)

\* The classes of the values passed: type(x).
Containers == {"ndarray", "list", "tuple", "Series", "Index"}
Types ==
  {"date", "datetime", "int", "bool", "float", "str", "np.bool_",
   "np.int8", "np.int16", "np.int32", "np.int64",
   "np.float16", "np.float32", "np.float64", "np.datetime64", "NoneType",
   "np.uint8", "set", "object"} \cup Containers

\* The classes a class derives from: datetime.datetime is a datetime.date,
\* bool is an int, numpy.float64 is a float.
Bases(t) ==
  IF t = "datetime" THEN {"date"}
  ELSE IF t = "bool" THEN {"int"}
  ELSE IF t = "np.float64" THEN {"float"}
  ELSE {}

\* isinstance(x, classes)
IsInstance(x, classes) == \E c \in classes : c = x.type \/ c \in Bases(x.type)

\* A value: its class, the number of its elements (a container's), and
\* for a positive Python int its bit_length(), which has no upper limit.
Values ==
  {[type |-> t, n |-> 1, bits |-> 0] : t \in Types \ (Containers \cup {"int"})}
    \cup {[type |-> t, n |-> m, bits |-> 0] : t \in Containers, m \in {0, 2}}
    \cup {[type |-> "int", n |-> 1, bits |-> b] : b \in {1, 63, 64}}

\* The line of the yield the chain of lines 75-102 takes x to.  On line 92
\* numpy.bool names the builtin bool and numpy.bool8 names numpy.bool_,
\* as in the numpy releases that define both.
YieldLine(x) ==
  IF IsInstance(x, {"date"}) THEN 76
  ELSE IF IsInstance(x, {"ndarray"}) THEN 78
  ELSE IF IsInstance(x, {"list", "tuple"}) THEN 80
  ELSE IF IsInstance(x, {"Series", "Index"}) THEN 82
  ELSE IF IsInstance(x, {"int", "float", "str", "bool", "np.bool_"}) THEN 84
  ELSE IF IsInstance(x, {"np.int8", "np.int16", "np.int32", "np.int64"}) THEN 87
  ELSE IF IsInstance(x, {"np.float16", "np.float32", "np.float64"}) THEN 90
  ELSE IF IsInstance(x, {"bool", "np.bool_"}) THEN 93
  ELSE IF IsInstance(x, {"np.datetime64"}) THEN 96
  ELSE IF x.type = "NoneType" THEN 98
  ELSE 102

\* The array each yield builds: the dtype asked for (type(x) on lines 84-93),
\* the number of elements, and the value it is built from.
ArrayOf(x) ==
  LET l == YieldLine(x)
  IN  [line |-> l,
       dtype |-> IF l \in {76, 96} THEN "datetime64[D]"
                 ELSE IF l \in {78, 82} THEN "unchanged"
                 ELSE IF l = 80 THEN "inferred"
                 ELSE IF l = 98 THEN "float64"
                 ELSE IF l = 102 THEN "object"
                 ELSE x.type,
       len |-> IF l \in {78, 80, 82} THEN x.n ELSE IF l = 98 THEN 0 ELSE 1,
       item |-> x]

\* Line 84 for a Python int: numpy.array([x], dtype=int) stores x in a
\* signed 64-bit integer and raises OverflowError ("Python int too large to
\* convert to C long") when x needs more than 63 bits; no try encloses it.
ConversionRaises(x) == YieldLine(x) = 84 /\ x.type = "int" /\ x.bits > 63

RECURSIVE SeqsUpTo(_, _)
SeqsUpTo(S, n) ==
  IF n = 0 THEN {<<>>}
  ELSE LET shorter == SeqsUpTo(S, n - 1)
       IN  shorter \cup {Append(q, v) : q \in {r \in shorter : Len(r) = n - 1}, v \in S}

FilesIdle ==
  /\ fs = {}
  /\ misc_folder_name = others
  /\ pc = "idle"
  /\ run = 1
  /\ lst_files = <<>>
  /\ lst_file_ext = {}
  /\ lst_file_ext0 = <<>>
  /\ i = 1
  /\ lst_misc_files = {}
  /\ fs0 = {}

\* convert_to_array(*args) has been called: the generator stands before
\* line 74.
InitGen ==
  /\ FilesIdle
  /\ args \in SeqsUpTo(Values, MaxArgs)
  /\ pos = 1
  /\ yielded = <<>>
  /\ warned = {}
  /\ gen = "suspended"

\* next() on the generator: one pass of the loop of line 74, to its yield.
GenYield ==
  /\ gen = "suspended"
  /\ pos <= Len(args)
  /\ ~ConversionRaises(args[pos])
  /\ yielded' = Append(yielded, ArrayOf(args[pos]))
  /\ warned' = IF YieldLine(args[pos]) = 102 THEN warned \cup {pos} ELSE warned
  /\ pos' = pos + 1
  /\ UNCHANGED <<args, gen, filevars>>

\* next() on the generator: the pass raises before it yields.
GenRaise ==
  /\ gen = "suspended"
  /\ pos <= Len(args)
  /\ ConversionRaises(args[pos])
  /\ gen' = "raised"
  /\ UNCHANGED <<args, pos, yielded, warned, filevars>>

\* next() on the generator after the last argument: StopIteration.
GenStop ==
  /\ gen = "suspended"
  /\ pos > Len(args)
  /\ gen' = "exhausted"
  /\ UNCHANGED <<args, pos, yielded, warned, filevars>>

NextGen ==
  \/ GenYield
  \/ GenRaise
  \/ GenStop

SpecGen == InitGen /\ [][NextGen]_vars

(* ------------------- claims about arrange_files ------------------------ *)

\* The entries the folder held when the model starts, by node.
Originals(f) == {n \in f : Len(n.id) = 1}

\* The first call has returned normally.
FirstDone == pc = "done" /\ run = 1

\* The entry that started as top-level name n lies in a folder of the top
\* level, under its own name.
InABucket(f, n) ==
  \E m \in f : m.id = <<n>> /\ Len(m.path) = 2 /\ m.path[2] = n
                /\ IsDir(f, <<m.path[1]>>)

\* C1 (as claimed): when arrange_files completes, every entry that was in
\* the folder at the call lies in exactly one bucket sub-folder; none is
\* left at the top level or lost.
C1_EveryEntryInOneBucket ==
  FirstDone => \A n \in TopNames(fs0) : InABucket(fs, n)

\* C2 (as claimed): a second call with the same catch-all name raises the
\* already-exists error at line 37 and leaves the tree as the first call
\* left it.
C2_SecondRunRaisesAndKeepsTree ==
  (run = 2 /\ pc # "makemisc") => (pc = "exists_error" /\ fs = fs0)

\* C3 (as claimed): when arrange_files completes, every entry that no
\* extension token matched lies in the folder named misc_folder_name, the
\* one line 37 made.
C3_LeftoversInConfiguredFolder ==
  FirstDone =>
    \A n \in TopNames(fs0) :
      Matches(n) = {} =>
        /\ [path |-> <<misc_folder_name>>, kind |-> "dir", id |-> <<>>] \in fs
        /\ \E m \in fs : m.id = <<n>> /\ m.path = <<misc_folder_name, n>>

C5_OnlyAlphabeticTokens ==
  /\ \A e \in lst_file_ext : IsExtension(e)
  /\ \A m \in fs :
       (StartsWithDot(m.path[1]) /\ ~IsExtension(m.path[1])) => m.id = m.path

\* For C9: the move the next pass of the loop of line 62 makes fails.
ExtMoveFails ==
  /\ pc = "moveext"
  /\ i <= Len(lst_files)
  /\ Matches(lst_files[i]) # {}
  /\ MoveFails(fs, lst_files[i], CHOOSE x \in Matches(lst_files[i]) : TRUE)

\* C9: a move that fails ends arrange_files at once with the tree as it was
\* before that move (the moves made so far kept, nothing rolled back), and
\* nothing is moved afterwards.
C9_FailedMovePropagates ==
  [][/\ ExtMoveFails => (pc' = "move_error" /\ fs' = fs)
     /\ (pc = "movemisc" /\ lst_misc_files' # lst_misc_files) =>
          LET m == CHOOSE x \in lst_misc_files : x \notin lst_misc_files'
          IN  MoveFails(fs, m, MiscTarget(misc_folder_name)) =>
                (pc' = "move_error" /\ fs' = fs)
     /\ pc = "move_error" => UNCHANGED vars]_vars

\* C9 (witness): a move failed after another entry had been moved into its
\* bucket, with an entry of the listing not yet reached.
C9_Witness ==
  /\ pc = "move_error"
  /\ run = 1
  /\ \E m \in Originals(fs) : Len(m.path) = 2 /\ m.id # m.path
  /\ \E m \in Originals(fs) : m.path = m.id /\ m.kind = "file"

\* C10 (as claimed): the test of line 69 excludes nothing: no entry of the
\* recomputed listing is named like a token.
C10_TestExcludesNothing ==
  pc = "movemisc" => \A x \in TopNames(fs) : x \notin lst_file_ext

\* C10 (amended): the test of line 69 excludes the bucket folders: every
\* token kept names an entry of the top level (the folder step 5 made or
\* found, named with its dot), that entry is never selected for the
\* catch-all, and it is still at the top level when arrange_files returns;
\* every other entry of the top level is selected (while the loop of line 71
\* runs it is still to be moved, or it is the destination of line 72).
C10_TestExcludesBuckets ==
  /\ pc \in {"movemisc", "done"} =>
       \A t \in lst_file_ext : t \in TopNames(fs) /\ t \notin lst_misc_files
  /\ pc = "movemisc" =>
       \A x \in TopNames(fs) \ lst_file_ext :
         x \in lst_misc_files \/ x = MiscTarget(misc_folder_name)

\* C10 (witness): the listing of line 67 held a bucket folder, which was
\* left out, and other entries, which were selected.
C10_Witness ==
  /\ pc = "movemisc"
  /\ lst_file_ext # {}
  /\ lst_misc_files # {}
  /\ \E t \in lst_file_ext : IsDir(fs, <<t>>) /\ Exists(fs, <<t, a_txt>>)

(* ------------------- claims about convert_to_array --------------------- *)

\* C6 (as claimed): consuming convert_to_array(*args) to its end yields one
\* array per argument, the i-th built from the i-th argument, and then the
\* generator is exhausted.
C6_OneArrayPerArgument ==
  /\ gen # "raised"
  /\ gen = "exhausted" =>
       /\ Len(yielded) = Len(args)
       /\ \A k \in 1..Len(args) : yielded[k].item = args[k]

\* The classes convert_to_array has no branch for.
Unrecognized == {"np.uint8", "set", "object"}

\* C7 (as claimed): convert_to_array never raises, and an argument of a
\* class it has no branch for is yielded as a one-element object array
\* holding it, with a warning, the arguments after it still being processed.
C7_NeverRaises ==
  /\ gen # "raised"
  /\ \A k \in 1..Len(yielded) :
       args[k].type \in Unrecognized =>
         /\ yielded[k] = [line |-> 102, dtype |-> "object", len |-> 1, item |-> args[k]]
         /\ k \in warned
  /\ gen = "exhausted" => Len(yielded) = Len(args)

\* The scalar classes the claim names.
Scalars ==
  {"bool", "int", "float", "str", "np.bool_", "np.int8", "np.int16", "np.int32",
   "np.int64", "np.float16", "np.float32", "np.float64"}

\* C8 (as claimed): every scalar argument of a recognized class is yielded
\* as a one-element array whose element type is the argument's own class,
\* by one of the scalar branches.
C8_ScalarKeepsExactType ==
  /\ \A k \in 1..Len(yielded) :
       args[k].type \in Scalars =>
         /\ yielded[k].len = 1
         /\ yielded[k].dtype = args[k].type
         /\ yielded[k].line \in {84, 87, 90, 93}
  /\ gen = "raised" => args[pos].type \notin Scalars

====
